---- MODULE Spec2Model ----
(***************************************************************************)
(* A model of icgauge: the feature-dataset builder (build_dataset), the    *)
(* label transforms, the experiment framework (experiment_features and its *)
(* iterated driver) and the cross-validated trainer.                       *)
(*                                                                         *)
(* Python values are modelled as tagged records so that values of          *)
(* different Python types can be compared.  Feature names are modelled by  *)
(* their rank in lexicographic order (name 1 < name 2 < ...), which is all *)
(* that list.sort() observes of them.                                      *)
(***************************************************************************)
EXTENDS Integers, Sequences, FiniteSets, TLC

VARIABLES
    pc,        \* position of the running program
    args,      \* arguments of the current build_dataset call
    ret,       \* what that call returned, or the exception it raised
    args2,     \* arguments of an independent second build
    ret2,      \* its outcome
    run,       \* arguments of the running experiment
    ex,        \* locals of the trial under way
    out,       \* what the experiment has accumulated
    gs         \* the grid search: its call, its outcome, what the calls returned

vars == <<pc, args, ret, args2, ret2, run, ex, out, gs>>
buildVars == <<args, ret, args2, ret2>>
expVars == <<run, ex, out>>

(***************************************************************************)
(* Bounds of the model.                                                    *)
(***************************************************************************)
MaxExamples == 2      \* examples a reader yields
MaxPhi == 2           \* extractors in phi_list
NumTexts == 2         \* distinct paragraphs
NumNames == 2         \* distinct feature names
MaxVal == 2           \* largest feature value a constant extractor emits
MaxRows == 3          \* examples of an experiment's training corpus
MaxAssess == 2        \* examples of an experiment's assessment corpus
MaxIter == 2          \* iterations of an experiment
MaxWork == 6          \* examples an experiment reads, all iterations together
MaxCand == 2          \* candidates of C in the grid of a direct call
MaxScore == 2         \* largest score of a fold
MaxExtra == 1         \* samples beyond one per fold

Texts == 1..NumTexts
Names == 1..NumNames
Vals == (-1)..MaxVal

(***************************************************************************)
(* Python values.                                                          *)
(***************************************************************************)
PyInt(i) == [t |-> "int", n |-> i, s |-> ""]
PyStr(x) == [t |-> "str", n |-> 0, s |-> x]
PyNone == [t |-> "NoneType", n |-> 0, s |-> ""]
PyNaN == [t |-> "float", n |-> 0, s |-> "nan"]

\* The labels read_format yields: 1..7, numpy.nan, None.
ReaderLabels == {PyInt(i) : i \in 1..7} \cup {PyNaN, PyNone}
\* Labels a reader of another corpus could yield.
RawLabels == ReaderLabels \cup {PyInt(0), PyInt(8), PyStr("NA")}
CoreLabels == {PyInt(2), PyInt(6), PyNone}
\* A scored, the unscoreable and the unassessed label of read_format.
MixedLabels == {PyInt(2), PyNaN, PyNone}

RECURSIVE SeqsUpTo(_, _)
SeqsUpTo(S, n) ==
    IF n = 0 THEN {<<>>}
    ELSE LET shorter == SeqsUpTo(S, n - 1)
         IN shorter \cup {Append(q, x) : q \in {r \in shorter : Len(r) = n - 1}, x \in S}

Range(q) == {q[i] : i \in DOMAIN q}

Bijections(S) == {f \in [S -> S] : \A i, j \in S : i # j => f[i] # f[j]}

Perms(q) == {[i \in DOMAIN q |-> q[f[i]]] : f \in Bijections(DOMAIN q)}

\* The orders in which a dict may hand out its keys.
IterOrders == Bijections(1..NumNames)
\* The order of the names themselves, for where the order cannot matter.
NameOrder == [i \in 1..NumNames |-> i]

(***************************************************************************)
(* label_transformers.py                                                   *)
(***************************************************************************)
Returned(v) == [raised |-> FALSE, error |-> "", value |-> v]
Raised(e) == [raised |-> TRUE, error |-> e, value |-> PyNone]

IdentityDropsUnscoreable(y) == IF y = PyNaN THEN Returned(PyNone) ELSE Returned(y)

identity_class_func(y) == Returned(y)

\* `y in (1, 2)`: equality with an int; numpy.nan, None and str equal none.
PyIn(y, S) == y.t = "int" /\ y.n \in S

\* `"The input value " + y + " is invalid"`: str + str concatenates, str +
\* anything else raises TypeError before ValueError is constructed.
InvalidLabelError == "ValueError: the input value is invalid"
ConcatTypeError == "TypeError: cannot concatenate 'str' and non-str objects"
EmptySampleError == "ValueError: Sample sequence X is empty."

InvalidValueError(y) == IF y.t = "str" THEN InvalidLabelError ELSE ConcatTypeError

ternary_class_func(y) ==
    IF PyIn(y, {1, 2}) THEN Returned(PyStr("low"))
    ELSE IF PyIn(y, {3, 4, 5}) THEN Returned(PyStr("medium"))
    ELSE IF PyIn(y, {6, 7}) THEN Returned(PyStr("high"))
    ELSE Raised(InvalidValueError(y))

ClassFuncs == {"identity_class_func", "ternary_class_func"}

ApplyClassFunc(class_func, label) ==
    IF class_func = "identity_class_func" THEN identity_class_func(label)
    ELSE ternary_class_func(label)

(***************************************************************************)
(* Feature extractors: pure functions from a paragraph to a Counter, here  *)
(* a function from a set of names to integers.                             *)
(***************************************************************************)
EmptyCounter == [e \in {} |-> 0]

\* An extractor emitting name 1 with the same value for every paragraph.
ConstFlag(v) == [kind |-> "const", v |-> v]
\* {"len": len(text)}-like: name 1, valued by the paragraph.
LengthPhi == [kind |-> "length", v |-> 0]
\* A content flag: the name depends on the paragraph.
PresencePhi == [kind |-> "presence", v |-> 0]

TextExtractors == {LengthPhi, PresencePhi}
Extractors == {ConstFlag(v) : v \in Vals} \cup TextExtractors

Phi(phi, paragraph) ==
    IF phi.kind = "const" THEN [e \in {1} |-> phi.v]
    ELSE IF phi.kind = "length" THEN [e \in {1} |-> paragraph]
    ELSE IF paragraph \in Names THEN [e \in {paragraph} |-> 1]
    ELSE EmptyCounter

(***************************************************************************)
(* collections.Counter                                                     *)
(***************************************************************************)
\* Counter.__missing__: a missing key counts 0.
CounterGet(c, e) == IF e \in DOMAIN c THEN c[e] ELSE 0

\* Counter.__or__, which `features |= cur_feats` calls: the maximum of the
\* two counts, kept only when it is positive.
CounterOr(self, other) ==
    LET newcount(e) == IF self[e] < CounterGet(other, e) THEN CounterGet(other, e) ELSE self[e]
        fromSelf == {e \in DOMAIN self : newcount(e) > 0}
        fromOther == {e \in DOMAIN other : e \notin DOMAIN self /\ other[e] > 0}
    IN [e \in fromSelf \cup fromOther |-> IF e \in fromSelf THEN newcount(e) ELSE other[e]]

(***************************************************************************)
(* experiment_frameworks.build_dataset                                     *)
(***************************************************************************)
\* Lines 64-71: the merge of every extractor's features for one paragraph.
RECURSIVE MergeFrom(_, _, _, _)
MergeFrom(features, phi_list, i, paragraph) ==
    IF i > Len(phi_list) THEN features
    ELSE MergeFrom(CounterOr(features, Phi(phi_list[i], paragraph)), phi_list, i + 1, paragraph)

MergeFeatures(phi_list, paragraph) == MergeFrom(EmptyCounter, phi_list, 1, paragraph)

\* Lines 55-72: the loop over the reader.  An exception of class_func ends it.
EmptyAcc == [raised |-> FALSE, error |-> "", labels |-> <<>>, raw_examples |-> <<>>,
             feat_dicts |-> <<>>]

\* A Featurize that records the paragraph of a dropped example.
RECURSIVE FeaturizeKeepsDroppedText(_, _, _, _, _)
FeaturizeKeepsDroppedText(acc, reader, i, phi_list, class_func) ==
    IF i > Len(reader) THEN acc
    ELSE LET cls == ApplyClassFunc(class_func, reader[i].label)
         IN IF cls.raised THEN [acc EXCEPT !.raised = TRUE, !.error = cls.error]
            ELSE IF cls.value # PyNone
            THEN FeaturizeKeepsDroppedText([acc EXCEPT
                               !.labels = Append(@, cls.value),
                               !.raw_examples = Append(@, reader[i].paragraph),
                               !.feat_dicts = Append(@, MergeFeatures(phi_list, reader[i].paragraph))],
                           reader, i + 1, phi_list, class_func)
            ELSE FeaturizeKeepsDroppedText([acc EXCEPT
                               !.raw_examples = Append(@, reader[i].paragraph)],
                           reader, i + 1, phi_list, class_func)

RECURSIVE Featurize(_, _, _, _, _)
Featurize(acc, reader, i, phi_list, class_func) ==
    IF i > Len(reader) THEN acc
    ELSE LET cls == ApplyClassFunc(class_func, reader[i].label)
         IN IF cls.raised THEN [acc EXCEPT !.raised = TRUE, !.error = cls.error]
            ELSE IF cls.value # PyNone
            THEN Featurize([acc EXCEPT
                               !.labels = Append(@, cls.value),
                               !.raw_examples = Append(@, reader[i].paragraph),
                               !.feat_dicts = Append(@, MergeFeatures(phi_list, reader[i].paragraph))],
                           reader, i + 1, phi_list, class_func)
            ELSE Featurize(acc, reader, i + 1, phi_list, class_func)

(***************************************************************************)
(* sklearn.feature_extraction.DictVectorizer(sparse=True)                  *)
(***************************************************************************)
NoVectorizer == [fitted |-> FALSE, feature_names |-> <<>>, vocabulary |-> <<>>]

\* The keys of dict d in the order `iter` hands them out.
Keys(d, iter) == SelectSeq(iter, LAMBDA e : e \in DOMAIN d)

\* The names in order of first appearance: vocab[f] = len(vocab).
RECURSIVE AppendNew(_, _, _)
AppendNew(seen, keys, i) ==
    IF i > Len(keys) THEN seen
    ELSE AppendNew(IF keys[i] \in Range(seen) THEN seen ELSE Append(seen, keys[i]), keys, i + 1)

RECURSIVE Encounter(_, _, _, _)
Encounter(seen, feat_dicts, i, iter) ==
    IF i > Len(feat_dicts) THEN seen
    ELSE Encounter(AppendNew(seen, Keys(feat_dicts[i], iter), 1), feat_dicts, i + 1, iter)

\* A fit that leaves the names in the order met.
NamesAsMet(feature_names) == feature_names

\* feature_names.sort()
SortNames(feature_names) == SortSeq(feature_names, LAMBDA a, b : a < b)

\* name -> column (0-based) of a list of feature names
IndexOf(feature_names) ==
    [f \in Range(feature_names) |-> (CHOOSE i \in DOMAIN feature_names : feature_names[i] = f) - 1]

\* One row of the matrix under a vocabulary of ncols columns: the value of the
\* feature mapped to each column, 0 where the dict has none; a feature not in
\* the vocabulary is skipped.
Row(d, vocabulary, ncols) ==
    [c \in 1..ncols |->
        IF \E f \in DOMAIN d : f \in DOMAIN vocabulary /\ vocabulary[f] = c - 1
        THEN d[CHOOSE f \in DOMAIN d : f \in DOMAIN vocabulary /\ vocabulary[f] = c - 1]
        ELSE 0]

Matrix(feat_dicts, vocabulary, ncols) ==
    [r \in DOMAIN feat_dicts |-> Row(feat_dicts[r], vocabulary, ncols)]

\* fit_transform: number the names as met, build the matrix, then sort the
\* names and move the columns (result_matrix[:, map_index]).
FitTransform(feat_dicts, iter) ==
    LET met == Encounter(<<>>, feat_dicts, 1, iter)
        vocab0 == IndexOf(met)
        matrix0 == Matrix(feat_dicts, vocab0, Len(met))
        feature_names == SortNames(met)
        map_index == [j \in DOMAIN feature_names |-> vocab0[feature_names[j]]]
    IN [vectorizer |-> [fitted |-> TRUE, feature_names |-> feature_names,
                        vocabulary |-> IndexOf(feature_names)],
        X |-> [r \in DOMAIN matrix0 |-> [j \in DOMAIN feature_names |-> matrix0[r][map_index[j] + 1]]]]

\* A transform that gives every name it meets a column.
TransformGrowsSchema(vectorizer, feat_dicts) ==
    FitTransform(feat_dicts, NameOrder).X

\* transform: the fitted vocabulary is read, never changed.
Transform(vectorizer, feat_dicts) ==
    Matrix(feat_dicts, vectorizer.vocabulary, Len(vectorizer.feature_names))

\* Lines 19-86.  `iter` is the order in which dicts hand out their keys.
build_dataset(reader, phi_list, class_func, vectorizer, iter) ==
    LET acc == Featurize(EmptyAcc, reader, 1, phi_list, class_func)
        failed(e) == [raised |-> TRUE, error |-> e, X |-> <<>>, y |-> <<>>,
                      vectorizer |-> NoVectorizer, raw_examples |-> <<>>]
    IN IF acc.raised THEN failed(acc.error)
       \* DictVectorizer._transform: "Sample sequence X is empty."
       ELSE IF acc.feat_dicts = <<>> THEN failed(EmptySampleError)
       ELSE IF vectorizer = NoVectorizer
       THEN LET fit == FitTransform(acc.feat_dicts, iter)
            IN [raised |-> FALSE, error |-> "", X |-> fit.X, y |-> acc.labels,
                vectorizer |-> fit.vectorizer, raw_examples |-> acc.raw_examples]
       ELSE [raised |-> FALSE, error |-> "", X |-> Transform(vectorizer, acc.feat_dicts),
             y |-> acc.labels, vectorizer |-> vectorizer, raw_examples |-> acc.raw_examples]

(***************************************************************************)
(* The calls of build_dataset.                                             *)
(***************************************************************************)
Example(p, l) == [paragraph |-> p, label |-> l]

\* Readers: short corpora over every raw label, longer ones over a few.
Readers ==
    SeqsUpTo({Example(p, l) : p \in Texts, l \in RawLabels}, 1)
        \cup SeqsUpTo({Example(p, l) : p \in Texts, l \in CoreLabels}, MaxExamples)
        \cup SeqsUpTo({Example(p, l) : p \in Texts, l \in MixedLabels}, MaxExamples)

PhiLists(S) == SeqsUpTo(S, MaxPhi) \ {<<>>}

\* A fitted vectorizer: the sorted names of some earlier fit.
FittedVectorizers ==
    {[fitted |-> TRUE, feature_names |-> fn, vocabulary |-> IndexOf(fn)] :
        fn \in {SortNames(q) : q \in {p \in SeqsUpTo(Names, NumNames) :
                                         \A i, j \in DOMAIN p : i # j => p[i] # p[j]}}}

\* The inputs explored: every extractor list over the one-example corpora of a
\* few labels, and the paragraph-dependent extractors over every corpus.
Inputs ==
    {[reader |-> r, phi_list |-> pl, class_func |-> cf] :
        r \in SeqsUpTo({Example(p, l) : p \in Texts, l \in CoreLabels}, 1),
        pl \in PhiLists(Extractors), cf \in ClassFuncs}
    \cup
    {[reader |-> r, phi_list |-> pl, class_func |-> cf] :
        r \in Readers, pl \in PhiLists(TextExtractors), cf \in ClassFuncs}

NoArgs == [reader |-> <<>>, phi_list |-> <<>>, class_func |-> "", vectorizer |-> NoVectorizer]
NoRet == [raised |-> FALSE, error |-> "", X |-> <<>>, y |-> <<>>,
          vectorizer |-> NoVectorizer, raw_examples |-> <<>>]

NoRun == [train_reader |-> <<>>, assess_reader |-> <<>>, has_assess_reader |-> FALSE,
          train_size |-> 0, phi_list |-> <<>>, class_func |-> "", iterations |-> 0]
NoTrial == [train |-> NoRet, assess |-> NoRet, ind_train |-> <<>>, ind_test |-> <<>>,
            X_train |-> <<>>, y_train |-> <<>>, X_assess |-> <<>>, y_assess |-> <<>>,
            raw_assess |-> <<>>, fit_X |-> <<>>, fit_y |-> <<>>,
            predicted_X |-> <<>>, predictions |-> <<>>]
NoOut == [trial |-> 0, correlations |-> <<>>, alphas |-> <<>>, details |-> <<>>, error |-> ""]
NoCall == [param_grid |-> <<>>, cv |-> 0, data |-> <<>>]
NoGrid == [call |-> NoCall, search |-> <<>>, runs |-> <<>>]

Init ==
    /\ pc = "idle"
    /\ args = NoArgs
    /\ ret = NoRet
    /\ args2 = NoArgs
    /\ ret2 = NoRet
    /\ run = NoRun
    /\ ex = NoTrial
    /\ out = NoOut
    /\ gs = NoGrid

\* build_dataset(reader, phi_list, class_func, vectorizer=None): training.
BuildTraining ==
    /\ pc = "idle"
    /\ \E in \in Inputs, iter \in IterOrders :
        /\ args' = [reader |-> in.reader, phi_list |-> in.phi_list,
                    class_func |-> in.class_func, vectorizer |-> NoVectorizer]
        /\ ret' = build_dataset(in.reader, in.phi_list, in.class_func, NoVectorizer, iter)
    /\ pc' = "trained"
    /\ UNCHANGED <<args2, ret2, expVars, gs>>

\* build_dataset(reader, phi_list, class_func, vectorizer=v): assessment.
BuildAssessment ==
    /\ pc = "idle"
    /\ \E in \in Inputs, v \in FittedVectorizers :
        /\ args' = [reader |-> in.reader, phi_list |-> in.phi_list,
                    class_func |-> in.class_func, vectorizer |-> v]
        /\ ret' = build_dataset(in.reader, in.phi_list, in.class_func, v, NameOrder)
    /\ pc' = "assessed"
    /\ UNCHANGED <<args2, ret2, expVars, gs>>

\* An independent training build of the same examples, the extractors listed
\* in any order.
RebuildTraining ==
    /\ pc = "trained"
    /\ \E pl \in Perms(args.phi_list), iter \in IterOrders :
        /\ args2' = [args EXCEPT !.phi_list = pl]
        /\ ret2' = build_dataset(args.reader, pl, args.class_func, NoVectorizer, iter)
    /\ pc' = "rebuilt"
    /\ UNCHANGED <<args, ret, expVars, gs>>

Next == BuildTraining \/ BuildAssessment \/ RebuildTraining

Spec == Init /\ [][Next]_vars

(***************************************************************************)
(* experiment_frameworks.experiment_features, run `iterations` times by    *)
(* experiment_features_iterated.                                           *)
(***************************************************************************)
\* Labels of the experiments' corpora: two ordinals and "no judgment".
ExpLabels == {PyInt(1), PyInt(3), PyNone}

\* The corpora of at most n examples; example i is paragraph i.
Corpora(n) ==
    {[i \in DOMAIN ls |-> Example(i, ls[i])] : ls \in SeqsUpTo(ExpLabels, n)}

\* train_size, in tenths: 0.5 and the default 0.7.
DefaultTrainSize == 7
TrainSizes == {5, DefaultTrainSize}

ExpPhiList == <<LengthPhi, PresencePhi>>

\* The examples a run reads from its readers, all iterations together.
RunWork(r) == r.iterations * (Len(r.train_reader) + Len(r.assess_reader))

AllRuns ==
    {[train_reader |-> tr, assess_reader |-> <<>>, has_assess_reader |-> FALSE,
      train_size |-> ts, phi_list |-> ExpPhiList, class_func |-> "identity_class_func",
      iterations |-> n] :
        tr \in Corpora(MaxRows), ts \in TrainSizes, n \in 1..MaxIter}
    \cup
    {[train_reader |-> tr, assess_reader |-> ar, has_assess_reader |-> TRUE,
      train_size |-> ts, phi_list |-> ExpPhiList,
      class_func |-> "identity_class_func", iterations |-> n] :
        tr \in Corpora(MaxRows), ar \in Corpora(MaxAssess), ts \in TrainSizes,
        n \in 1..MaxIter}

Runs == {r \in AllRuns : RunWork(r) <= MaxWork}

InitExp ==
    /\ pc = "start"
    /\ run \in Runs
    /\ ex = NoTrial
    /\ out = NoOut
    /\ args = NoArgs
    /\ ret = NoRet
    /\ args2 = NoArgs
    /\ ret2 = NoRet
    /\ gs = NoGrid

\* An exception leaves the experiment; nothing is returned.
Fail(e) ==
    /\ pc' = "failed"
    /\ out' = [out EXCEPT !.error = e]

\* Line 150: train = build_dataset(train_reader, phi_list, class_func, vectorizer=None)
\* Lines 153-154: X_train = train['X']; y_train = train['y']
ExpBuildTrain ==
    /\ pc = "start"
    /\ \E iter \in IterOrders :
        LET train == build_dataset(run.train_reader, run.phi_list, run.class_func,
                                   NoVectorizer, iter)
        IN IF train.raised
           THEN Fail(train.error) /\ UNCHANGED ex
           ELSE /\ ex' = [ex EXCEPT !.train = train, !.X_train = train.X, !.y_train = train.y]
                /\ pc' = "built"
                /\ UNCHANGED out
    /\ UNCHANGED <<run, buildVars, gs>>

\* A train part rounded up.
NTrainCeil(n, train_size) == (train_size * n + 9) \div 10

\* ShuffleSplit's sizes with test_size=None: n_train = floor(train_size * n),
\* n_test = n - n_train.
NTrain(n, train_size) == (train_size * n) \div 10

\* A test part of the default test_size, a quarter rounded up.
NTestDefaultQuarter(n, train_size) == (n + 3) \div 4

NTest(n, train_size) == n - NTrain(n, train_size)

Select(q, ind) == [k \in DOMAIN ind |-> q[ind[k]]]

\* The index arrays of one split: the permutation's first n_test places are
\* the test rows, the next n_train the train rows.
SplitIndices(permutation, n, train_size) ==
    [test |-> SubSeq(permutation, 1, NTest(n, train_size)),
     train |-> SubSeq(permutation, NTest(n, train_size) + 1,
                      NTest(n, train_size) + NTrain(n, train_size))]

\* Lines 157-159: X_train, X_assess, y_train, y_assess =
\*     train_test_split(X_train, y_train, train_size=train_size)
ExpSplit ==
    /\ pc = "built"
    /\ ~run.has_assess_reader
    /\ \E permutation \in Perms([i \in DOMAIN ex.y_train |-> i]) :
        LET ind == SplitIndices(permutation, Len(ex.y_train), run.train_size)
        IN ex' = [ex EXCEPT
                    !.ind_train = ind.train,
                    !.ind_test = ind.test,
                    !.X_train = Select(ex.X_train, ind.train),
                    !.y_train = Select(ex.y_train, ind.train),
                    !.X_assess = Select(ex.X_train, ind.test),
                    !.y_assess = Select(ex.y_train, ind.test),
                    !.raw_assess = Select(ex.train.raw_examples, ind.test)]
    /\ pc' = "ready"
    /\ UNCHANGED <<run, out, buildVars, gs>>

\* An assessment build that fits a vectorizer of its own.
FreshVectorizer(train) == NoVectorizer

\* Lines 161-166: assess = build_dataset(assess_reader, phi_list, class_func,
\*     vectorizer=train['vectorizer']); X_assess, y_assess = assess['X'], assess['y']
AssessVectorizer(train) == train.vectorizer

ExpBuildAssess ==
    /\ pc = "built"
    /\ run.has_assess_reader
    /\ LET assess == build_dataset(run.assess_reader, run.phi_list, run.class_func,
                                   AssessVectorizer(ex.train), NameOrder)
       IN IF assess.raised
          THEN Fail(assess.error) /\ UNCHANGED ex
          ELSE /\ ex' = [ex EXCEPT !.assess = assess, !.X_assess = assess.X,
                                   !.y_assess = assess.y,
                                   !.raw_assess = assess.raw_examples]
               /\ pc' = "ready"
               /\ UNCHANGED out
    /\ UNCHANGED <<run, buildVars, gs>>

\* Line 169: mod = train_func(X_train, y_train).  The fitted model is known by
\* the rows and labels it was fitted on; no model is fitted on no rows.
NoTrainingRowsError == "ValueError: no samples to fit"

ExpTrain ==
    /\ pc = "ready"
    /\ IF ex.y_train = <<>>
       THEN Fail(NoTrainingRowsError) /\ UNCHANGED ex
       ELSE /\ ex' = [ex EXCEPT !.fit_X = ex.X_train, !.fit_y = ex.y_train]
            /\ pc' = "fitted"
            /\ UNCHANGED out
    /\ UNCHANGED <<run, buildVars, gs>>

\* What predict may answer for the rows X: a class met in fitting for each
\* row, the same class for equal rows.
Predictions(X, fit_y) ==
    {p \in [DOMAIN X -> Range(fit_y)] : \A i, j \in DOMAIN X : X[i] = X[j] => p[i] = p[j]}

\* The rows the predictions are asked for.
PredictInput(e) == e.X_assess

\* Line 172: predictions = mod.predict(X_assess)
ExpPredict ==
    /\ pc = "fitted"
    /\ \E p \in Predictions(PredictInput(ex), ex.fit_y) :
        ex' = [ex EXCEPT !.predicted_X = PredictInput(ex), !.predictions = p]
    /\ pc' = "predicted"
    /\ UNCHANGED <<run, out, buildVars, gs>>

(***************************************************************************)
(* The statistics, over integer ratings.  Variances and covariances are    *)
(* kept as exact integers scaled by n * n; a statistic is NaN or the       *)
(* fraction num / den (Pearson's r: num / sqrt(den)).                      *)
(***************************************************************************)
RECURSIVE SumSeq(_)
SumSeq(q) == IF q = <<>> THEN 0 ELSE Head(q) + SumSeq(Tail(q))

Ratings(labels) == [i \in DOMAIN labels |-> labels[i].n]

\* n * n * covariance
ScaledCov(x, y) ==
    Len(x) * SumSeq([i \in DOMAIN x |-> x[i] * y[i]]) - SumSeq(x) * SumSeq(y)
ScaledVar(x) == ScaledCov(x, x)

StatNaN == [nan |-> TRUE, num |-> 0, den |-> 0]
Stat(num, den) == [nan |-> FALSE, num |-> num, den |-> den]

\* A pearsonr that answers 0 where r is undefined.
PearsonZeroWhenUndefined(y_true, y_pred) ==
    LET x == Ratings(y_true)
        y == Ratings(y_pred)
    IN IF ScaledVar(x) * ScaledVar(y) = 0 THEN Stat(0, 1)
       ELSE Stat(ScaledCov(x, y), ScaledVar(x) * ScaledVar(y))

\* Line 178/182: scipy.stats.pearsonr(y_assess, predictions)[0]: r_num / r_den,
\* 0 / 0 = nan when either sequence is constant.
Pearson(y_true, y_pred) ==
    LET x == Ratings(y_true)
        y == Ratings(y_pred)
    IN IF ScaledVar(x) * ScaledVar(y) = 0 THEN StatNaN
       ELSE Stat(ScaledCov(x, y), ScaledVar(x) * ScaledVar(y))

\* Cronbach's alpha of two raters:
\* (k / (k - 1)) * (1 - sum of the raters' variances / variance of the sums),
\* k = 2; NaN when the sums have no variance.
CronbachAlpha(y_true, y_pred) ==
    LET x == Ratings(y_true)
        y == Ratings(y_pred)
        total == [i \in DOMAIN x |-> x[i] + y[i]]
    IN IF ScaledVar(total) = 0 THEN StatNaN
       ELSE Stat(2 * (ScaledVar(total) - ScaledVar(x) - ScaledVar(y)), ScaledVar(total))

\* One record per assessed example.
Details(raw, y_true, y_pred) ==
    [i \in DOMAIN y_pred |-> [example |-> raw[i], truth |-> y_true[i], prediction |-> y_pred[i]]]

\* Line 182: score_func(y_assess, predictions); the iterated driver appends
\* the trial's correlation, alpha and details, and runs the next trial or
\* returns.
ExpScore ==
    /\ pc = "predicted"
    /\ out' = [out EXCEPT
                 !.trial = @ + 1,
                 !.correlations = Append(@, Pearson(ex.y_assess, ex.predictions)),
                 !.alphas = Append(@, CronbachAlpha(ex.y_assess, ex.predictions)),
                 !.details = @ \o Details(ex.raw_assess, ex.y_assess, ex.predictions)]
    /\ pc' = IF out.trial + 1 < run.iterations THEN "start" ELSE "returned"
    /\ ex' = IF out.trial + 1 < run.iterations THEN NoTrial ELSE ex
    /\ UNCHANGED <<run, buildVars, gs>>

NextExp ==
    \/ ExpBuildTrain
    \/ ExpSplit
    \/ ExpBuildAssess
    \/ ExpTrain
    \/ ExpPredict
    \/ ExpScore

SpecExp == InitExp /\ [][NextExp]_vars

(***************************************************************************)
(* training_functions.py: hyperparameters set by a cross-validated grid    *)
(* search (sklearn.grid_search.GridSearchCV with its defaults, iid and     *)
(* refit included).  C is kept in tenths.  A score is an integer in        *)
(* 0..MaxScore; a mean validation score is kept multiplied by the number   *)
(* of samples, which is the same for every configuration of a search.      *)
(***************************************************************************)
\* The parameter names in string order ("C" < "fit_intercept" < "penalty").
ParamNames == <<"C", "fit_intercept", "penalty">>

KeyRank(k) == CHOOSE i \in DOMAIN ParamNames : ParamNames[i] = k

MaxentCv == 5

MaxentGrid ==
    [fit_intercept |-> <<TRUE, FALSE>>,
     C |-> <<4, 6, 8, 10, 20, 30>>,
     penalty |-> <<"l1", "l2">>]

\* Grids of direct calls of fit_classifier_with_crossvalidation.
SmallGrids ==
    {[fit_intercept |-> SubSeq(MaxentGrid.fit_intercept, 1, b),
      C |-> SubSeq(MaxentGrid.C, 1, a),
      penalty |-> <<"l2">>] : a \in 1..MaxCand, b \in 1..2}

\* The orders in which the dict param_grid may hand out its keys.
KeyOrders == Perms(ParamNames)

\* sorted(param_grid.items())
SortedKeys(keys) ==
    [i \in DOMAIN keys |->
        CHOOSE k \in Range(keys) :
            Cardinality({j \in Range(keys) : KeyRank(j) < KeyRank(k)}) = i - 1]

\* itertools.product over the candidate lists: the last key varies fastest.
RECURSIVE Product(_, _)
Product(keys, param_grid) ==
    IF keys = <<>> THEN << <<>> >>
    ELSE LET rest == Product(Tail(keys), param_grid)
             values == param_grid[Head(keys)]
         IN [i \in 1..(Len(values) * Len(rest)) |->
                (Head(keys) :> values[((i - 1) \div Len(rest)) + 1])
                    @@ rest[((i - 1) % Len(rest)) + 1]]

ParameterGrid(param_grid, iter) == Product(SortedKeys(iter), param_grid)

\* The sizes of the test folds of n samples cut in cv folds.
FoldSizes(n, cv) == [i \in 1..cv |-> (n \div cv) + (IF i <= n % cv THEN 1 ELSE 0)]

Zeros(cv) == [i \in 1..cv |-> 0]

\* Scores of one configuration, fold by fold.
FoldScores(cv) ==
    {[i \in 1..cv |-> IF i = 1 THEN a ELSE IF i = 2 THEN b ELSE 0] :
        a \in 0..MaxScore, b \in 0..MaxScore}

ConstScores(cv) == {[i \in 1..cv |-> a] : a \in 0..MaxScore}

\* What (X, y) decides of a search: the number of samples, and the scores
\* that fitting a configuration on the training folds earns on the test
\* folds.  Two configurations are singled out; the others score nothing.
Datasets(param_grid, cv, scores) ==
    LET grid == Product(ParamNames, param_grid)
        singled == {t \in (DOMAIN grid) \X (DOMAIN grid) \X scores \X scores :
                       \/ t[1] < t[2]
                       \/ t[1] = t[2] /\ t[3] = t[4]}
    IN {[n_samples |-> n, p_params |-> grid[t[1]], p_scores |-> t[3],
         q_params |-> grid[t[2]], q_scores |-> t[4]] :
            n \in cv..(cv + MaxExtra), t \in singled}

Calls(param_grid, cv, scores) ==
    {[param_grid |-> param_grid, cv |-> cv, data |-> d] :
        d \in Datasets(param_grid, cv, scores)}

\* _fit_and_score, for every fold
FitAndScore(call, parameters) ==
    IF parameters = call.data.p_params THEN call.data.p_scores
    ELSE IF parameters = call.data.q_params THEN call.data.q_scores
    ELSE Zeros(call.cv)

\* iid = True: every fold weighs as its number of test samples.
MeanValidationScore(fold_scores, n_test) ==
    SumSeq([i \in DOMAIN fold_scores |-> fold_scores[i] * n_test[i]])

GridScores(call, iter) ==
    LET grid == ParameterGrid(call.param_grid, iter)
        n_test == FoldSizes(call.data.n_samples, call.cv)
    IN [i \in DOMAIN grid |->
           LET fold_scores == FitAndScore(call, grid[i])
           IN [parameters |-> grid[i],
               cv_validation_scores |-> fold_scores,
               mean_validation_score |-> MeanValidationScore(fold_scores, n_test)]]

BestLastWinsTies(grid_scores) ==
    grid_scores[CHOOSE i \in DOMAIN grid_scores :
        /\ \A j \in DOMAIN grid_scores :
              grid_scores[j].mean_validation_score <= grid_scores[i].mean_validation_score
        /\ \A j \in DOMAIN grid_scores :
              j > i => grid_scores[j].mean_validation_score
                          < grid_scores[i].mean_validation_score]

\* sorted(grid_scores, key = mean_validation_score, reverse = True)[0]:
\* the sort is stable, the first of the best stays first.
Best(grid_scores) ==
    grid_scores[CHOOSE i \in DOMAIN grid_scores :
        /\ \A j \in DOMAIN grid_scores :
              grid_scores[j].mean_validation_score <= grid_scores[i].mean_validation_score
        /\ \A j \in DOMAIN grid_scores :
              j < i => grid_scores[j].mean_validation_score
                          < grid_scores[i].mean_validation_score]

\* GridSearchCV(basemod, param_grid, cv, scoring).fit(X, y)
GridSearchCV_fit(call, iter) ==
    LET grid_scores == GridScores(call, iter)
        best == Best(grid_scores)
    IN [grid_scores_ |-> grid_scores,
        best_params_ |-> best.parameters,
        best_score_ |-> best.mean_validation_score,
        best_estimator_ |-> [params |-> best.parameters,
                             fitted_on |-> call.data.n_samples]]

InitGrid ==
    /\ pc = "ready"
    /\ gs = NoGrid
    /\ args = NoArgs
    /\ ret = NoRet
    /\ args2 = NoArgs
    /\ ret2 = NoRet
    /\ run = NoRun
    /\ ex = NoTrial
    /\ out = NoOut

\* fit_maxent_with_crossvalidation(X, y)
CallFitMaxent ==
    /\ pc = "ready" /\ gs.runs = <<>>
    /\ \E call \in Calls(MaxentGrid, MaxentCv, ConstScores(MaxentCv)) :
          gs' = [gs EXCEPT !.call = call]
    /\ pc' = "called"
    /\ UNCHANGED <<buildVars, expVars>>

\* fit_classifier_with_crossvalidation(X, y, basemod, cv, param_grid)
CallFitClassifier ==
    /\ pc = "ready" /\ gs.runs = <<>>
    /\ \E param_grid \in SmallGrids :
          \E call \in Calls(param_grid, 2, FoldScores(2)) :
              gs' = [gs EXCEPT !.call = call]
    /\ pc' = "called"
    /\ UNCHANGED <<buildVars, expVars>>

\* The same call once more: same grid, same (X, y), same folds.
CallAgain ==
    /\ pc = "ready" /\ Len(gs.runs) = 1
    /\ pc' = "called"
    /\ UNCHANGED <<gs, buildVars, expVars>>

GridSearchFit ==
    /\ pc = "called"
    /\ \E iter \in KeyOrders :
          gs' = [gs EXCEPT !.search = GridSearchCV_fit(gs.call, iter)]
    /\ pc' = "fitted"
    /\ UNCHANGED <<buildVars, expVars>>

GridReturn ==
    /\ pc = "fitted"
    /\ gs' = [gs EXCEPT !.runs = Append(gs.runs, gs.search.best_estimator_)]
    /\ pc' = "ready"
    /\ UNCHANGED <<buildVars, expVars>>

NextGrid ==
    \/ CallFitMaxent
    \/ CallFitClassifier
    \/ CallAgain
    \/ GridSearchFit
    \/ GridReturn

SpecGrid == InitGrid /\ [][NextGrid]_vars

(***************************************************************************)
(* Properties of build_dataset.                                            *)
(***************************************************************************)
Built == pc \in {"trained", "assessed"}

\* The transformed label of example i of a reader (class_func did not raise).
Cls(a, i) == ApplyClassFunc(a.class_func, a.reader[i].label)

\* The positions of the examples kept, in reader order.
KeptIdx(a) ==
    SelectSeq([i \in DOMAIN a.reader |-> i], LAMBDA i : Cls(a, i).value # PyNone)

\* The values the extractors of phi_list emit for name e on a paragraph.
Emitted(phi_list, paragraph, e) ==
    {Phi(phi_list[k], paragraph)[e] :
        k \in {j \in DOMAIN phi_list : e \in DOMAIN Phi(phi_list[j], paragraph)}}

SetMax(S) == CHOOSE m \in S : \A x \in S : x <= m

\* C1 (as claimed): in every build that returns, for every kept example and
\* every feature name some extractor emits, the merged feature dict holds that
\* name with the maximum of the emitted values, whatever their sign.
C1_MergedIsMaxOfEmitted ==
    (Built /\ ~ret.raised) =>
        \A i \in Range(KeptIdx(args)) : \A e \in Names :
            LET p == args.reader[i].paragraph
                m == MergeFeatures(args.phi_list, p)
                vs == Emitted(args.phi_list, p, e)
            IN vs # {} => (e \in DOMAIN m /\ m[e] = SetMax(vs))

C3_AssessmentKeepsSchema ==
    pc = "assessed" =>
        LET v == args.vectorizer
            kept == KeptIdx(args)
        IN IF ret.raised
           THEN \/ \E i \in DOMAIN args.reader : Cls(args, i).raised
                \/ kept = <<>>
           ELSE /\ ret.vectorizer = v
                /\ \A j \in DOMAIN ret.X :
                    LET m == MergeFeatures(args.phi_list, args.reader[kept[j]].paragraph)
                    IN /\ Len(ret.X[j]) = Len(v.feature_names)
                       /\ \A c \in DOMAIN v.feature_names :
                            ret.X[j][c] = IF v.feature_names[c] \in DOMAIN m
                                          THEN m[v.feature_names[c]] ELSE 0

\* C3 witness: an assessment build that returned, where an example has a name
\* the schema never saw and lacks a name the schema has.
C3_Witness ==
    /\ pc = "assessed" /\ ~ret.raised
    /\ \E i \in Range(KeptIdx(args)) :
        LET m == MergeFeatures(args.phi_list, args.reader[i].paragraph)
        IN /\ \E e \in DOMAIN m : e \notin Range(args.vectorizer.feature_names)
           /\ \E e \in Range(args.vectorizer.feature_names) : e \notin DOMAIN m

IsSorted(q) == \A i, j \in DOMAIN q : i < j => q[i] < q[j]

\* The names of the merged feature dicts of the kept examples of a build.
ObservedNames(a) ==
    UNION {DOMAIN MergeFeatures(a.phi_list, a.reader[i].paragraph) : i \in Range(KeptIdx(a))}

\* C4: a training build maps the names it observed to columns in sorted name
\* order, and an independent training build of the same examples with the
\* same extractors in any order ends the same way: the same name-to-column
\* mapping, the same matrix, the same labels and paragraphs.
C4_TrainingSchemaDeterministic ==
    /\ (pc \in {"trained", "rebuilt"} /\ ~ret.raised) =>
        /\ IsSorted(ret.vectorizer.feature_names)
        /\ Range(ret.vectorizer.feature_names) = ObservedNames(args)
        /\ ret.vectorizer.vocabulary = IndexOf(ret.vectorizer.feature_names)
    /\ pc = "rebuilt" => ret2 = ret

\* C4 witness: two returned training builds with the extractors in different
\* orders and a schema of more than one column.
C4_Witness ==
    /\ pc = "rebuilt" /\ ~ret2.raised
    /\ args2.phi_list # args.phi_list
    /\ Len(ret2.vectorizer.feature_names) > 1
    /\ Len(ret2.X) > 1

\* C7 (as claimed): under ternary_class_func a build whose labels are all in
\* 1..7 returns their buckets, and a build that meets any other label raises
\* the invalid-label error and returns no dataset.
Bucket(n) == IF n \in {1, 2} THEN "low" ELSE IF n \in {3, 4, 5} THEN "medium" ELSE "high"

C7_InvalidLabelRaisesInvalidLabelError ==
    (Built /\ args.class_func = "ternary_class_func" /\ args.reader # <<>>) =>
        IF \A i \in DOMAIN args.reader :
               args.reader[i].label.t = "int" /\ args.reader[i].label.n \in 1..7
        THEN /\ ~ret.raised
             /\ ret.y = [i \in DOMAIN args.reader |-> PyStr(Bucket(args.reader[i].label.n))]
        ELSE /\ ret.raised
             /\ ret.error = InvalidLabelError
             /\ ret.y = <<>> /\ ret.X = <<>>
(***************************************************************************)
(* Properties of the experiments.                                          *)
(***************************************************************************)
\* The kept examples of a reader under the run's class_func.
KeptOf(reader) == KeptIdx([reader |-> reader, class_func |-> run.class_func])

\* The size of every trial's assess set, from the run's arguments alone.
AssessSize ==
    IF run.has_assess_reader THEN Len(KeptOf(run.assess_reader))
    ELSE LET n == Len(KeptOf(run.train_reader))
         IN n - ((run.train_size * n) \div 10)

\* The reader whose examples a trial assesses.
AssessedReader == IF run.has_assess_reader THEN run.assess_reader ELSE run.train_reader

\* C5: the correlations and the alphas have one entry per finished trial,
\* exactly `iterations` entries each when the run returns; the details are as
\* many as the assess sets of the finished trials together, and each record
\* holds the paragraph and the label of an example of the assessed reader
\* with a label predicted from the training labels.
C5_AggregateLengths ==
    pc \in {"start", "built", "ready", "fitted", "predicted", "returned", "failed"} =>
        /\ Len(out.correlations) = out.trial
        /\ Len(out.alphas) = out.trial
        /\ out.trial <= run.iterations
        /\ pc = "returned" => out.trial = run.iterations
        /\ Len(out.details) = out.trial * AssessSize
        /\ \A k \in DOMAIN out.details :
            /\ \E i \in Range(KeptOf(AssessedReader)) :
                /\ AssessedReader[i].paragraph = out.details[k].example
                /\ AssessedReader[i].label = out.details[k].truth
            /\ \E i \in Range(KeptOf(run.train_reader)) :
                run.train_reader[i].label = out.details[k].prediction

\* C5 witness: a returned run of two trials that assessed two examples each.
C5_Witness ==
    /\ pc = "returned"
    /\ run.iterations = 2
    /\ Len(out.correlations) = 2
    /\ Len(out.details) = 4

IsConstant(q) == \A i, j \in DOMAIN q : q[i] = q[j]

\* A trial about to be scored whose predictions, or true labels, are all the
\* same.
DegenerateTrial == pc = "predicted" /\ (IsConstant(ex.predictions) \/ IsConstant(ex.y_assess))

Last(q) == q[Len(q)]

InTrial == pc \in {"ready", "fitted", "predicted"}

RowsOf(reader, vectorizer) ==
    [j \in DOMAIN KeptOf(reader) |->
        Row(MergeFeatures(run.phi_list, reader[KeptOf(reader)[j]].paragraph),
            vectorizer.vocabulary, Len(vectorizer.feature_names))]

\* C9: with an assess reader, the assess dataset carries the vectorizer fitted
\* on the training dataset and its rows have the training matrix's columns;
\* nothing is split whatever train_size is; the model is fitted on every row
\* of the training dataset; and the predictions are asked for the rows of the
\* kept assess examples, one prediction each.
C9_AssessReaderSharesSchema ==
    (InTrial /\ run.has_assess_reader) =>
        /\ ex.assess.vectorizer = ex.train.vectorizer
        /\ ex.train.vectorizer.feature_names = SortNames(ex.train.vectorizer.feature_names)
        /\ \A j \in DOMAIN ex.X_assess :
            Len(ex.X_assess[j]) = Len(ex.train.vectorizer.feature_names)
        /\ \A j \in DOMAIN ex.X_train :
            Len(ex.X_train[j]) = Len(ex.train.vectorizer.feature_names)
        /\ ex.X_assess = RowsOf(run.assess_reader, ex.train.vectorizer)
        /\ ex.ind_train = <<>> /\ ex.ind_test = <<>>
        /\ ex.X_train = ex.train.X /\ ex.y_train = ex.train.y
        /\ Len(ex.train.y) = Len(KeptOf(run.train_reader))
        /\ pc \in {"fitted", "predicted"} =>
            ex.fit_X = ex.train.X /\ ex.fit_y = ex.train.y
        /\ pc = "predicted" =>
            /\ ex.predicted_X = ex.assess.X
            /\ Len(ex.predictions) = Len(KeptOf(run.assess_reader))

\* C9 witness: predictions made with an assess reader that has a dropped
\* example and an example with a feature name the training schema lacks.
C9_Witness ==
    /\ pc = "predicted" /\ run.has_assess_reader
    /\ Len(ex.predictions) < Len(run.assess_reader)
    /\ \E i \in Range(KeptOf(run.assess_reader)) :
        \E e \in DOMAIN MergeFeatures(run.phi_list, run.assess_reader[i].paragraph) :
            e \notin Range(ex.train.vectorizer.feature_names)

NoDuplicates(q) == \A i, j \in DOMAIN q : i # j => q[i] # q[j]

\* C10: without an assess reader, the split's train and assess parts are
\* disjoint and cover every row of the built dataset once; each part's X rows
\* and labels are those of its rows; the train part has floor(train_size * n)
\* rows (7 of 10 at 0.7, 3 left to assess); the model is fitted on the train
\* part and the predictions are asked for the assess part.
C10_SplitPartitionsRows ==
    /\ NTrain(10, DefaultTrainSize) = 7 /\ NTest(10, DefaultTrainSize) = 3
    /\ (InTrial /\ ~run.has_assess_reader) =>
        LET n == Len(ex.train.y)
        IN /\ NoDuplicates(ex.ind_train \o ex.ind_test)
           /\ Range(ex.ind_train \o ex.ind_test) = 1..n
           /\ Len(ex.ind_train) = (run.train_size * n) \div 10
           /\ Len(ex.ind_test) = n - Len(ex.ind_train)
           /\ ex.X_train = [k \in DOMAIN ex.ind_train |-> ex.train.X[ex.ind_train[k]]]
           /\ ex.y_train = [k \in DOMAIN ex.ind_train |-> ex.train.y[ex.ind_train[k]]]
           /\ ex.X_assess = [k \in DOMAIN ex.ind_test |-> ex.train.X[ex.ind_test[k]]]
           /\ ex.y_assess = [k \in DOMAIN ex.ind_test |-> ex.train.y[ex.ind_test[k]]]
           /\ pc \in {"fitted", "predicted"} =>
                ex.fit_X = ex.X_train /\ ex.fit_y = ex.y_train
           /\ pc = "predicted" =>
                /\ ex.predicted_X = ex.X_assess
                /\ Len(ex.predictions) = Len(ex.ind_test)

\* C10 witness: predictions made after a split of three rows at train_size
\* 0.7 into two train rows and one assess row, out of reader order.
C10_Witness ==
    /\ pc = "predicted" /\ ~run.has_assess_reader
    /\ run.train_size = DefaultTrainSize
    /\ Len(ex.train.y) = 3
    /\ Len(ex.ind_train) = 2 /\ Len(ex.ind_test) = 1
    /\ ex.ind_train[1] > ex.ind_train[2]

(***************************************************************************)
(* Properties of the grid search.                                          *)
(***************************************************************************)
\* Every choice of one candidate per parameter.
Configurations(param_grid) ==
    {[C |-> c, fit_intercept |-> f, penalty |-> p] :
        c \in Range(param_grid.C), f \in Range(param_grid.fit_intercept),
        p \in Range(param_grid.penalty)}

\* The search has scored every configuration once, on every fold, in the
\* order of the product over the sorted parameter names.
EvaluatesEveryConfiguration ==
    LET scored == gs.search.grid_scores_
        grid == gs.call.param_grid
    IN /\ Len(scored) = Len(grid.C) * Len(grid.fit_intercept) * Len(grid.penalty)
       /\ \A c \in Configurations(grid) :
              Cardinality({i \in DOMAIN scored : scored[i].parameters = c}) = 1
       /\ \A i \in DOMAIN scored :
              /\ Len(scored[i].cv_validation_scores) = gs.call.cv
              /\ scored[i].cv_validation_scores = FitAndScore(gs.call, scored[i].parameters)
       /\ \A i, j \in DOMAIN scored :
              LET a == scored[i].parameters
                  b == scored[j].parameters
              IN i < j =>
                   \/ a.C < b.C
                   \/ a.C = b.C /\ a.fit_intercept /\ ~b.fit_intercept
                   \/ a.C = b.C /\ a.fit_intercept = b.fit_intercept
                        /\ a.penalty = "l1" /\ b.penalty = "l2"
       /\ (grid = MaxentGrid => Len(scored) = 24 /\ gs.call.cv = 5)

\* The sum of a configuration's fold scores: cv times their mean.
FoldTotal(entry) == SumSeq(entry.cv_validation_scores)

\* The sum of a configuration's scores over the test samples of all folds:
\* n_samples times the mean weighted by the sizes of the folds.
SampleTotal(entry) ==
    LET n_test == FoldSizes(gs.call.data.n_samples, gs.call.cv)
    IN SumSeq([i \in 1..gs.call.cv |-> entry.cv_validation_scores[i] * n_test[i]])

\* The returned model is a refit, on all of (X, y), of the first
\* configuration of the enumeration whose total is the largest.
ReturnsFirstBest(Total(_)) ==
    LET scored == gs.search.grid_scores_
    IN \E w \in DOMAIN scored :
          /\ gs.search.best_estimator_.params = scored[w].parameters
          /\ gs.search.best_estimator_.fitted_on = gs.call.data.n_samples
          /\ \A j \in DOMAIN scored : Total(scored[j]) <= Total(scored[w])
          /\ \A j \in DOMAIN scored : j < w => Total(scored[j]) < Total(scored[w])

SameSelectionTwice ==
    Len(gs.runs) = 2 => gs.runs[1].params = gs.runs[2].params

\* C8, as claimed: the search evaluates every configuration of the Cartesian
\* product (24 with cv = 5 for fit_maxent_with_crossvalidation), returns a
\* refit of the first enumerated configuration whose mean score over the
\* folds is maximal, and selects the same configuration on two runs.
C8_SelectsFirstBestFoldMean ==
    /\ pc = "fitted" =>
          EvaluatesEveryConfiguration /\ ReturnsFirstBest(FoldTotal)
    /\ SameSelectionTwice

\* C8, amended: as above, the mean score of a configuration being the mean
\* over the test samples of all folds (each fold weighs as its size), which
\* is the mean over the folds when the folds have equal sizes.
C8_SelectsFirstBestSampleMean ==
    /\ pc = "fitted" =>
          EvaluatesEveryConfiguration /\ ReturnsFirstBest(SampleTotal)
    /\ SameSelectionTwice

\* Two runs of the maxent search where two configurations tie for the best
\* score and the first enumerated of the two was selected both times.
C8_Witness ==
    /\ pc = "ready" /\ Len(gs.runs) = 2
    /\ gs.call.param_grid = MaxentGrid
    /\ Len(gs.search.grid_scores_) = 24
    /\ gs.call.data.p_params # gs.call.data.q_params
    /\ gs.call.data.p_scores = gs.call.data.q_scores
    /\ gs.search.best_score_ > 0
    /\ gs.runs[2].params = gs.call.data.p_params
    /\ gs.runs[1] = gs.runs[2]

(***************************************************************************)
(* Properties of the label filter under identity_class_func.               *)
(***************************************************************************)
\* The positions of a reader whose raw label is not None, in reader order.
Judged(reader) ==
    SelectSeq([i \in DOMAIN reader |-> i], LAMBDA i : reader[i].label # PyNone)

\* How many members of a sequence of labels are NaN.
Unscoreable(labels) == Cardinality({i \in DOMAIN labels : labels[i] = PyNaN})

====
